---- MODULE Spec2Model ----
(***************************************************************************)
(* zktraffic: the bounded queueing / fan-out statistics pipeline           *)
(* (zktraffic/stats/loaders.py, QueueStatsLoader) and the packet sniffer   *)
(* (zktraffic/network/sniffer.py, Sniffer).                                *)
(*                                                                         *)
(* The actions are the methods of the two classes and the steps of the     *)
(* consumer thread's run().  Each specification puts them in one           *)
(* environment:                                                            *)
(*   Spec         : one accumulator, a producer of MaxMsgs messages, the   *)
(*                  consumer thread; less than a gate period passes.       *)
(*   DispatchSpec : any of the accumulators registered.                    *)
(*   TimerSpec    : the clock advances and the gate opens.                 *)
(*   StopSpec     : a caller of stop() and wakeup().                       *)
(*   FairSpec     : a producer that may send for ever, and the consumer    *)
(*                  thread under weak fairness.                            *)
(*   ConcurrentSpec: two producer threads in handle_request, which is two  *)
(*                  steps there: the AuthTable, then the queue.            *)
(*   SnifferSpec  : the Sniffer: add_handler, run and handle_packet.       *)
(*                                                                         *)
(* Elsewhere handle_request, handle_reply and handle_event are each one     *)
(* step: there is a single producer thread, and the consumer only pops.    *)
(***************************************************************************)
EXTENDS Integers, Sequences, FiniteSets, TLC

\* ------------------------------------------------------------------ bounds
\* QueueStatsLoader(max_reqs, max_reps, max_events): the configured maxima
max_reqs == 2
max_reps == 1
max_events == 1
\* number of messages the producer hands to handle_* in one behaviour
MaxMsgs == 3
\* the clock advances in steps of TickStep up to MaxTime
TickStep == 30
MaxTime == 120
\* messages the producer sends in DispatchSpec, TimerSpec and StopSpec
MaxDispatchMsgs == 2
MaxTimerMsgs == 1
MaxStopMsgs == 1
\* messages with an id of their own that the producer sends in FairSpec;
\* after them it may send requests without end
MaxFairMsgs == 2
\* requests the producer threads hand to handle_request in ConcurrentSpec
MaxConcurrentMsgs == 3

\* ---------------------------------------------------------- program values
\* the period of the gate, run(): self._timer.after(60)
Period == 60

Clients == {"c1", "c2"}
Credentials == {"digest:abc", "digest:xyz"}
NoAuth == "noauth"
\* the auth attribute of a Request that handle_request has not assigned
Unset == "unset"
NoCredential == "-"

Kinds == {"request", "reply", "event"}

\* The accumulators a caller may register, each with the methods it exposes
\* (the duck-typed capabilities of spec section 3).
Caps(acc) ==
  CASE acc = "full" -> {"update_request_stats", "update_reply_stats",
                        "update_event_stats", "accumulate_stats"}
    [] acc = "paths" -> {"update_request_stats", "update_event_stats",
                         "accumulate_stats"}
    [] acc = "replies_only" -> {"update_reply_stats"}

Accumulators == {"full", "paths", "replies_only"}

hasattr(acc, method) == method \in Caps(acc)

\* the update method that handles a message kind
UpdateMethod(kind) ==
  CASE kind = "request" -> "update_request_stats"
    [] kind = "reply" -> "update_reply_stats"
    [] kind = "event" -> "update_event_stats"

\* ------------------------------------------------------------------- state
VARIABLES
  accumulators,      \* self._accumulators: name -> accumulator
  stopped,           \* self._stopped
  requests,          \* self._requests: Deque
  replies,           \* self._replies: Deque
  events,            \* self._events: Deque
  request_handlers,  \* self._request_handlers: set of bound methods
  reply_handlers,    \* self._reply_handlers
  event_handlers,    \* self._event_handlers
  auth_by_client,    \* self._auth_by_client: defaultdict(lambda: "noauth")
  timer_start,       \* self._timer: the reference point of the gate
  now,               \* the clock
  pc,                \* position of the consumer thread in run()
  \* history variables
  next_id,           \* sequence number of the next message handed to handle_*
  last_cred,         \* client -> credential of its latest is_auth request
  last_call,         \* <<>> or <<the last dispatch of _process_queue>>
  rounds,            \* one record per iteration in which the gate was open
  stop_called,       \* stop() was called after start()
  calls,             \* producer thread -> <<>> or <<the Request of its call of
                     \* handle_request, between line 117 and line 119>>
  \* Sniffer
  sn_port,           \* Sniffer._port
  sn_dump_bad_packet,\* Sniffer._dump_bad_packet
  sn_handlers,       \* Sniffer._handlers: list
  sn_result,         \* the last Sniffer operation and its outcome
  sn_pc,             \* where Sniffer.run() is: "idle", "sniffing", "exited"
  sn_offline,        \* "offline" in kwargs of run()
  sn_exit,           \* how sniff() ended: None, "return" or the exception
  sn_sigint          \* number of SIGINT sent to the own process

loader_vars == <<accumulators, stopped, requests, replies, events,
                 request_handlers, reply_handlers, event_handlers,
                 auth_by_client, timer_start, now, pc, next_id, last_cred,
                 last_call, rounds,
                 stop_called, calls>>
sniffer_vars == <<sn_port, sn_dump_bad_packet, sn_handlers, sn_result, sn_pc,
                  sn_offline, sn_exit, sn_sigint>>
vars == <<loader_vars, sniffer_vars>>

\* ------------------------------------------- zktraffic.base.deque.Deque
\* A deque with a maximum length.  The left end is index 1.
Deque(maxlen) == [items |-> <<>>, maxlen |-> maxlen]

maxlength(queue) == queue.maxlen

\* appendleft on a full deque discards the item at the right end
appendleft(queue, item) ==
  LET all == <<item>> \o queue.items
  IN [queue EXCEPT !.items =
        IF Len(all) > queue.maxlen THEN SubSeq(all, 1, queue.maxlen) ELSE all]

\* append on a full deque discards the item at the left end
append(queue, item) ==
  LET all == queue.items \o <<item>>
  IN [queue EXCEPT !.items =
        IF Len(all) > queue.maxlen
        THEN SubSeq(all, Len(all) - queue.maxlen + 1, Len(all)) ELSE all]

\* pop() takes the item at the right end; IndexError when empty
pop_raises(queue) == Len(queue.items) = 0
pop_item(queue) == queue.items[Len(queue.items)]
pop_rest(queue) ==
  [queue EXCEPT !.items = SubSeq(queue.items, 1, Len(queue.items) - 1)]

\* ------------------------------------------------- zktraffic.stats.timer
Timer_reset == now
Timer_after(duration) == now - timer_start >= duration

\* ------------------------------------------ defaultdict(lambda: "noauth")
\* d[k]: a missing key is inserted with the default value, then returned
getitem_value(d, k) == IF k \in DOMAIN d THEN d[k] ELSE NoAuth
getitem_dict(d, k) ==
  [c \in DOMAIN d \cup {k} |-> IF c \in DOMAIN d THEN d[c] ELSE NoAuth]
setitem(d, k, v) == [c \in DOMAIN d \cup {k} |-> IF c = k THEN v ELSE d[c]]

\* ------------------------------------------------------ QueueStatsLoader
NewRequests == Deque(max_reqs)
NewReplies_swapped == Deque(max_reqs)
NewReplies == Deque(max_reps)
NewEvents == Deque(max_events)

\* the threads that call handle_request
Producers == {"p1", "p2"}

\* the Requests a producer may hand to handle_request (auth not yet stamped)
RequestInputs ==
  {[client |-> c, is_auth |-> FALSE, credential |-> NoCredential] : c \in Clients}
  \cup {[client |-> c, is_auth |-> TRUE, credential |-> k] :
          c \in Clients, k \in Credentials}

\* seen: what the producer knows, when it makes the call, to be the credential
\* of the latest is_auth request of this client (a history field)
Request(id, in, seen) ==
  [id |-> id, kind |-> "request", client |-> in.client, is_auth |-> in.is_auth,
   credential |-> in.credential, auth |-> Unset, seen |-> seen]
Message(id, kind) == [id |-> id, kind |-> kind]

\* handle_request, lines 114-117: the request as it is queued
request_after_auth_default(table, request) ==
  IF request.is_auth THEN request ELSE [request EXCEPT !.auth = NoAuth]
request_after_auth(table, request) ==
  IF request.is_auth
  THEN request
  ELSE [request EXCEPT !.auth = getitem_value(table, request.client)]

\* handle_request, lines 114-117: the table after the call
table_after_auth(table, request) ==
  IF request.is_auth
  THEN setitem(table, request.client, request.credential)
  ELSE getitem_dict(table, request.client)

add_to_queue_append(queue, item) ==
  LET count == Len(queue.items)
  IN IF count > maxlength(queue) THEN queue ELSE append(queue, item)
add_to_queue(queue, item) ==
  LET count == Len(queue.items)
  IN IF count > maxlength(queue) THEN queue ELSE appendleft(queue, item)

IsFull(queue) == Len(queue.items) = queue.maxlen

Init_loader ==
  /\ accumulators = <<>>
  /\ stopped = TRUE
  /\ requests = NewRequests
  /\ replies = NewReplies
  /\ events = NewEvents
  /\ request_handlers = {}
  /\ reply_handlers = {}
  /\ event_handlers = {}
  /\ auth_by_client = <<>>
  /\ timer_start = 0
  /\ now = 0
  /\ pc = "not_started"
  /\ next_id = 1
  /\ last_cred = [c \in Clients |-> NoAuth]
  /\ last_call = <<>>
  /\ rounds = <<>>
  /\ stop_called = FALSE
  /\ calls = [p \in Producers |-> <<>>]

\* ---------------------------------------------------------------- Sniffer
None == "None"
SnHandlers == {"h1", "h2", "h3"}
Ports == {2181, 2888}
\* transport payloads: empty, or bytes the message decoder accepts, rejects
\* with DeserializationError, or rejects with struct.error
Empty == ""
Payloads == {Empty, "valid", "malformed", "truncated"}
len(data) == IF data = Empty THEN 0 ELSE 1
Packets == [sport : Ports \cup {49152}, dport : Ports \cup {49152},
            data : Payloads]

\* the ways sniff() ends: it returns, or raises socket.error or another
\* exception
SniffExits == {"return", "socket.error", "Exception"}

Range(list) == {list[i] : i \in 1..Len(list)}

\* add_handler(handler), lines 65-72: the outcome and the list after the call
add_handler_no_dup_check(handlers, handler) ==
  IF handler = None
  THEN [outcome |-> "RegistrationError", handlers |-> handlers]
  ELSE [outcome |-> "ok", handlers |-> Append(handlers, handler)]
add_handler_result(handlers, handler) ==
  IF handler = None
  THEN [outcome |-> "RegistrationError", handlers |-> handlers]
  ELSE IF handler \in Range(handlers)
  THEN [outcome |-> "RegistrationError", handlers |-> handlers]
  ELSE [outcome |-> "ok", handlers |-> Append(handlers, handler)]

\* zktraffic.base.network.get_ip_packet: the IP packet of the frame
get_ip_packet(packet) ==
  [data |-> [sport |-> packet.sport, dport |-> packet.dport,
             data |-> packet.data]]

\* msg_cls.from_payload(data, src, dst, time): the injected message decoder
from_payload(data) ==
  CASE data = "valid" -> "Message"
    [] data = "malformed" -> "DeserializationError"
    [] data = "truncated" -> "struct.error"

\* message_from_packet(packet), lines 110-130.
\* result: None, the Message, or the exception raised;
\* decoder: whether from_payload was called.
message_from_packet_or(packet, port) ==
  LET ip_p == get_ip_packet(packet)
  IN IF 0 = len(ip_p.data.data)
     THEN [result |-> None, decoder |-> FALSE]
     ELSE IF ip_p.data.sport # port \/ ip_p.data.dport # port
     THEN [result |-> "BadPacket", decoder |-> FALSE]
     ELSE [result |-> from_payload(ip_p.data.data), decoder |-> TRUE]
message_from_packet_ports_first(packet, port) ==
  LET ip_p == get_ip_packet(packet)
  IN IF ip_p.data.sport # port /\ ip_p.data.dport # port
     THEN [result |-> "BadPacket", decoder |-> FALSE]
     ELSE IF 0 = len(ip_p.data.data)
     THEN [result |-> None, decoder |-> FALSE]
     ELSE [result |-> from_payload(ip_p.data.data), decoder |-> TRUE]
message_from_packet(packet, port) ==
  LET ip_p == get_ip_packet(packet)
  IN IF 0 = len(ip_p.data.data)
     THEN [result |-> None, decoder |-> FALSE]
     ELSE IF ip_p.data.sport # port /\ ip_p.data.dport # port
     THEN [result |-> "BadPacket", decoder |-> FALSE]
     ELSE [result |-> from_payload(ip_p.data.data), decoder |-> TRUE]

\* handle_message(message), lines 106-108: for h in self._handlers: h(message).
\* n = 0: no handler raises; n > 0: the n-th handler called raises, which
\* ends the loop.  called: the handlers called, in the order of the calls.
handle_message_reversed(handlers, n) ==
  LET reversed == [i \in 1..Len(handlers) |-> handlers[Len(handlers) + 1 - i]]
  IN [called |-> IF n = 0 THEN reversed ELSE SubSeq(reversed, 1, n),
      raised |-> IF n = 0 THEN None ELSE "Exception"]
handle_message(handlers, n) ==
  [called |-> IF n = 0 THEN handlers ELSE SubSeq(handlers, 1, n),
   raised |-> IF n = 0 THEN None ELSE "Exception"]

\* handle_packet, lines 96-104: the except clauses, given the exception
\* raised in the try block (None when there was none).
\* propagated: the exception leaves handle_packet; dumped: the packet is
\* printed to the output.
except_clauses_bad_packet_only(raised, dump_bad_packet) ==
  IF raised = None THEN [propagated |-> FALSE, dumped |-> FALSE]
  ELSE IF raised \in {"BadPacket", "struct.error"}
  THEN [propagated |-> FALSE, dumped |-> dump_bad_packet]
  ELSE [propagated |-> TRUE, dumped |-> FALSE]
except_clauses(raised, dump_bad_packet) ==
  IF raised = None THEN [propagated |-> FALSE, dumped |-> FALSE]
  ELSE IF raised \in {"BadPacket", "struct.error"}
  THEN [propagated |-> FALSE, dumped |-> dump_bad_packet]
  ELSE [propagated |-> FALSE, dumped |-> TRUE]

\* run(), lines 85-89, when sniff() has ended by path ("return" or the
\* exception raised).  signal: os.kill(os.getpid(), SIGINT) is executed;
\* stderr: the error is written; raises: the exception leaves run().
run_exit_except_only(path, offline) ==
  [signal |-> path = "socket.error" /\ ~offline,
   stderr |-> path = "socket.error",
   raises |-> path = "Exception"]
run_exit(path, offline) ==
  [signal |-> ~offline,
   stderr |-> path = "socket.error",
   raises |-> path = "Exception"]

NoPacket == [sport |-> 0, dport |-> 0, data |-> Empty]
NoDecode == [result |-> None, decoder |-> FALSE]

\* Sniffer.__init__, lines 47-63, with port, dump_bad_packet and handler
\* (None or a handler to add) drawn from the given sets
Init_sniffer(ports, flags, handlers) ==
  /\ sn_port \in ports
  /\ sn_dump_bad_packet \in flags
  /\ \E handler \in handlers :
       sn_handlers = IF handler # None
                     THEN add_handler_result(<<>>, handler).handlers
                     ELSE <<>>
  /\ sn_result = [op |-> "__init__", handler |-> None, packet |-> NoPacket,
                  before |-> <<>>, outcome |-> "ok", decode |-> NoDecode,
                  called |-> <<>>, dumped |-> FALSE, propagated |-> FALSE,
                  prev_failed |-> FALSE]
  /\ sn_pc = "idle"
  /\ sn_offline = FALSE
  /\ sn_exit = None
  /\ sn_sigint = 0


\* -------------------------------------------------------------- operations
\* register_accumulator(name, accumulator).  Registration is only supported
\* before the thread is started (line 63).
register_accumulator(name, accumulator) ==
  /\ pc = "not_started"
  /\ name \notin DOMAIN accumulators
  /\ accumulators' = [n \in DOMAIN accumulators \cup {name} |->
                        IF n = name THEN accumulator ELSE accumulators[n]]
  /\ request_handlers' =
       IF hasattr(accumulator, "update_request_stats")
       THEN request_handlers \cup
              {[acc |-> accumulator, method |-> "update_request_stats"]}
       ELSE request_handlers
  /\ reply_handlers' =
       IF hasattr(accumulator, "update_reply_stats")
       THEN reply_handlers \cup
              {[acc |-> accumulator, method |-> "update_reply_stats"]}
       ELSE reply_handlers
  /\ event_handlers' =
       IF hasattr(accumulator, "update_event_stats")
       THEN event_handlers \cup
              {[acc |-> accumulator, method |-> "update_event_stats"]}
       ELSE event_handlers
  /\ UNCHANGED <<stopped, requests, replies, events, auth_by_client,
                 timer_start, now, pc, next_id, last_cred, last_call, rounds,
                 stop_called,
                 calls, sniffer_vars>>

\* Thread.start(): the consumer thread exists and has not run a statement
start ==
  /\ pc = "not_started"
  /\ pc' = "run_entry"
  /\ UNCHANGED <<accumulators, stopped, requests, replies, events,
                 request_handlers, reply_handlers, event_handlers,
                 auth_by_client, timer_start, now, next_id, last_cred,
                 last_call, rounds, stop_called,
                 calls, sniffer_vars>>

\* wakeup(), lines 54-56: notify on the condition, on which no thread waits
wakeup ==
  UNCHANGED vars

\* stop(), lines 72-75
stop ==
  /\ stopped' = TRUE
  /\ stop_called' = (stop_called \/ pc # "not_started")
  /\ UNCHANGED <<accumulators, requests, replies, events, request_handlers,
                 reply_handlers, event_handlers, auth_by_client, timer_start,
                 now, pc, next_id, last_cred, last_call, rounds,
                 calls, sniffer_vars>>

\* handle_request(request), lines 113-119, on the producer's thread
handle_request(input) ==
  /\ next_id <= MaxMsgs
  /\ LET request == Request(next_id, input, last_cred[input.client])
     IN /\ auth_by_client' = table_after_auth(auth_by_client, request)
        /\ requests' = add_to_queue(requests,
                                    request_after_auth(auth_by_client, request))
  /\ last_cred' = IF input.is_auth
                  THEN [last_cred EXCEPT ![input.client] = input.credential]
                  ELSE last_cred
  /\ next_id' = next_id + 1
  /\ UNCHANGED <<accumulators, stopped, replies, events, request_handlers,
                 reply_handlers, event_handlers, timer_start, now, pc,
                 last_call, rounds, stop_called,
                 calls, sniffer_vars>>

\* handle_request(request), lines 113-119, for a request beyond the first
\* MaxFairMsgs messages: the producer may go on for ever, and these requests
\* carry id 0
handle_request_more(input) ==
  /\ next_id > MaxFairMsgs
  /\ LET request == Request(0, input, last_cred[input.client])
     IN /\ auth_by_client' = table_after_auth(auth_by_client, request)
        /\ requests' = add_to_queue(requests,
                                    request_after_auth(auth_by_client, request))
  /\ last_cred' = IF input.is_auth
                  THEN [last_cred EXCEPT ![input.client] = input.credential]
                  ELSE last_cred
  /\ UNCHANGED <<accumulators, stopped, replies, events, request_handlers,
                 reply_handlers, event_handlers, timer_start, now, pc,
                 next_id, last_call, rounds, stop_called,
                 calls, sniffer_vars>>

\* handle_request(request) on the thread of producer p, lines 114-117: the
\* AuthTable is updated, or read to stamp the request.  No lock is held, so
\* the other producer may run between this step and the next.
handle_request_auth(p, input) ==
  /\ calls[p] = <<>>
  /\ next_id <= MaxConcurrentMsgs
  /\ LET request == Request(next_id, input, last_cred[input.client])
     IN /\ auth_by_client' = table_after_auth(auth_by_client, request)
        /\ calls' = [calls EXCEPT
                       ![p] = <<request_after_auth(auth_by_client, request)>>]
  /\ last_cred' = IF input.is_auth
                  THEN [last_cred EXCEPT ![input.client] = input.credential]
                  ELSE last_cred
  /\ next_id' = next_id + 1
  /\ UNCHANGED <<accumulators, stopped, requests, replies, events,
                 request_handlers, reply_handlers, event_handlers,
                 timer_start, now, pc, last_call, rounds, stop_called,
                 sniffer_vars>>

\* handle_request(request) on the thread of producer p, line 119
handle_request_enqueue(p) ==
  /\ calls[p] # <<>>
  /\ requests' = add_to_queue(requests, calls[p][1])
  /\ calls' = [calls EXCEPT ![p] = <<>>]
  /\ UNCHANGED <<accumulators, stopped, replies, events, request_handlers,
                 reply_handlers, event_handlers, auth_by_client, timer_start,
                 now, pc, next_id, last_cred, last_call, rounds, stop_called,
                 sniffer_vars>>

\* handle_reply(reply), lines 121-122
handle_reply ==
  /\ next_id <= MaxMsgs
  /\ replies' = add_to_queue(replies, Message(next_id, "reply"))
  /\ next_id' = next_id + 1
  /\ UNCHANGED <<accumulators, stopped, requests, events, request_handlers,
                 reply_handlers, event_handlers, auth_by_client, timer_start,
                 now, pc, last_call, rounds, stop_called, last_cred,
                 calls, sniffer_vars>>

\* handle_event(event), lines 124-125
handle_event ==
  /\ next_id <= MaxMsgs
  /\ events' = add_to_queue(events, Message(next_id, "event"))
  /\ next_id' = next_id + 1
  /\ UNCHANGED <<accumulators, stopped, requests, replies, request_handlers,
                 reply_handlers, event_handlers, auth_by_client, timer_start,
                 now, pc, last_call, rounds, stop_called, last_cred,
                 calls, sniffer_vars>>

\* the clock
Tick ==
  /\ now + TickStep <= MaxTime
  /\ now' = now + TickStep
  /\ UNCHANGED <<accumulators, stopped, requests, replies, events,
                 request_handlers, reply_handlers, event_handlers,
                 auth_by_client, timer_start, pc, next_id, last_cred,
                 last_call, rounds, stop_called,
                 calls, sniffer_vars>>

\* run(), lines 79-82: self._stopped = False; self._timer.reset()
run_begin ==
  /\ pc = "run_entry"
  /\ stopped' = FALSE
  /\ timer_start' = Timer_reset
  /\ pc' = "loop_check"
  /\ UNCHANGED <<accumulators, requests, replies, events, request_handlers,
                 reply_handlers, event_handlers, auth_by_client, now,
                 next_id, last_cred, last_call, rounds, stop_called,
                 calls, sniffer_vars>>

\* run(), line 83: while not self._stopped
loop_check ==
  /\ pc = "loop_check"
  /\ pc' = IF stopped THEN "done" ELSE "requests"
  /\ UNCHANGED <<accumulators, stopped, requests, replies, events,
                 request_handlers, reply_handlers, event_handlers,
                 auth_by_client, timer_start, now, next_id, last_cred,
                 last_call, rounds, stop_called,
                 calls, sniffer_vars>>

\* _process_queue, lines 105-111: [handler(item) for handler in handlers]
\* inside one try.  handlers is a set, iterated in an arbitrary order; any
\* handler may raise, and the first one that does ends the comprehension.
\* invoked: the handlers called for the item; raised: {} or {the one that raised}.
DispatchOutcomes(handlers) ==
  {[invoked |-> handlers, raised |-> {}]}
  \cup {[invoked |-> S, raised |-> {h}] :
          S \in (SUBSET handlers) \ {{}}, h \in handlers}

ValidOutcome(o) == o.raised \subseteq o.invoked

\* _process_queue(queue, handlers), lines 98-111, one pass of the while loop:
\* pop an item and call the handlers, or leave the loop on IndexError.
process_queue(queue, handlers, next_pc) ==
  IF pop_raises(queue)
  THEN /\ pc' = next_pc
       /\ queue' = queue
       /\ UNCHANGED last_call
  ELSE LET item == pop_item(queue)
       IN /\ queue' = pop_rest(queue)
          /\ \E o \in DispatchOutcomes(handlers) :
               /\ ValidOutcome(o)
               /\ last_call' = <<[item |-> item, handlers |-> handlers,
                                  invoked |-> o.invoked, raised |-> o.raised]>>
          /\ pc' = pc

process_requests_reply_handlers ==
  /\ pc = "requests"
  /\ process_queue(requests, reply_handlers, "replies")
  /\ UNCHANGED <<accumulators, stopped, replies, events, request_handlers,
                 reply_handlers, event_handlers, auth_by_client, timer_start,
                 now, next_id, last_cred, rounds, stop_called,
                 calls, sniffer_vars>>

\* run(), line 86
process_requests ==
  /\ pc = "requests"
  /\ process_queue(requests, request_handlers, "replies")
  /\ UNCHANGED <<accumulators, stopped, replies, events, request_handlers,
                 reply_handlers, event_handlers, auth_by_client, timer_start,
                 now, next_id, last_cred, rounds, stop_called,
                 calls, sniffer_vars>>

\* run(), line 87
process_replies ==
  /\ pc = "replies"
  /\ process_queue(replies, reply_handlers, "events")
  /\ UNCHANGED <<accumulators, stopped, requests, events, request_handlers,
                 reply_handlers, event_handlers, auth_by_client, timer_start,
                 now, next_id, last_cred, rounds, stop_called,
                 calls, sniffer_vars>>

\* run(), line 88
process_events ==
  /\ pc = "events"
  /\ process_queue(events, event_handlers, "timer_check")
  /\ UNCHANGED <<accumulators, stopped, requests, replies, request_handlers,
                 reply_handlers, event_handlers, auth_by_client, timer_start,
                 now, next_id, last_cred, rounds, stop_called,
                 calls, sniffer_vars>>

Values(f) == {f[n] : n \in DOMAIN f}

\* run(), lines 91-92: for accumulator in self._accumulators.values():
\* accumulator.accumulate_stats().  The dict is iterated in an arbitrary
\* order; the call raises AttributeError on an accumulator without the
\* method, and the method itself may raise.  Nothing catches either, so the
\* first failure ends the loop and the thread.
\* invoked: the accumulators whose accumulate_stats was called;
\* failed: {} or {the accumulator at which the exception was raised}.
AccumulateOutcomes(accs) ==
  LET able == {a \in accs : hasattr(a, "accumulate_stats")}
  IN (IF able = accs THEN {[invoked |-> accs, failed |-> {}]} ELSE {})
     \cup {[invoked |-> S \cup ({a} \cap able), failed |-> {a}] :
             S \in SUBSET able, a \in accs}

\* run(), lines 90-93, the gate closed: on to the sleep
gate_closed ==
  /\ pc = "timer_check"
  /\ ~Timer_after(Period)
  /\ pc' = "sleep"
  /\ UNCHANGED <<accumulators, stopped, requests, replies, events,
                 request_handlers, reply_handlers, event_handlers,
                 auth_by_client, timer_start, now, next_id, last_cred,
                 last_call, rounds, stop_called,
                 calls, sniffer_vars>>

\* run(), lines 90-93, the gate open: accumulate, then reset the gate
accumulate ==
  /\ pc = "timer_check"
  /\ Timer_after(Period)
  /\ \E o \in AccumulateOutcomes(Values(accumulators)) :
       /\ rounds' = Append(rounds,
            [at |-> now, since |-> timer_start, invoked |-> o.invoked,
             failed |-> o.failed])
       /\ IF o.failed = {}
          THEN /\ timer_start' = Timer_reset
               /\ pc' = "sleep"
          ELSE /\ timer_start' = timer_start
               /\ pc' = "crashed"
  /\ UNCHANGED <<accumulators, stopped, requests, replies, events,
                 request_handlers, reply_handlers, event_handlers,
                 auth_by_client, now, next_id, last_cred, last_call,
                 stop_called,
                 calls, sniffer_vars>>

\* run(), line 96: time.sleep(1), then back to the loop condition
sleep ==
  /\ pc = "sleep"
  /\ pc' = "loop_check"
  /\ UNCHANGED <<accumulators, stopped, requests, replies, events,
                 request_handlers, reply_handlers, event_handlers,
                 auth_by_client, timer_start, now, next_id, last_cred,
                 last_call, rounds, stop_called,
                 calls, sniffer_vars>>

\* whether the last call of handle_packet so far met an exception
last_frame_failed ==
  IF sn_result.op = "handle_packet"
  THEN sn_result.outcome # "ok"
  ELSE sn_result.prev_failed

\* add_handler(handler), lines 65-72
add_handler(handler) ==
  LET r == add_handler_result(sn_handlers, handler)
  IN /\ sn_handlers' = r.handlers
     /\ sn_result' = [op |-> "add_handler", handler |-> handler,
                      packet |-> NoPacket, before |-> sn_handlers,
                      outcome |-> r.outcome, decode |-> NoDecode,
                      called |-> <<>>, dumped |-> FALSE,
                      propagated |-> FALSE,
                      prev_failed |-> last_frame_failed]
     /\ UNCHANGED <<sn_port, sn_dump_bad_packet, sn_pc, sn_offline, sn_exit,
                    sn_sigint, loader_vars>>

\* run(*args, **kwargs), lines 74-84: up to the call of sniff(); offline is
\* "offline" in kwargs (Thread.start() calls run() without arguments)
Sniffer_run(offline) ==
  /\ sn_pc = "idle"
  /\ sn_pc' = "sniffing"
  /\ sn_offline' = offline
  /\ UNCHANGED <<sn_port, sn_dump_bad_packet, sn_handlers, sn_result, sn_exit,
                 sn_sigint, loader_vars>>

\* the end of run() once sniff() has ended by path
sniff_ended(path) ==
  /\ sn_pc' = "exited"
  /\ sn_exit' = path
  /\ sn_sigint' = sn_sigint + (IF run_exit(path, sn_offline).signal
                                THEN 1 ELSE 0)

\* run(), lines 84-89: sniff() returns or raises, the except and finally
\* clauses
sniff_exit(path) ==
  /\ sn_pc = "sniffing"
  /\ sniff_ended(path)
  /\ UNCHANGED <<sn_port, sn_dump_bad_packet, sn_handlers, sn_result,
                 sn_offline, loader_vars>>

\* handle_packet(packet), lines 91-104, with handle_message, lines 106-108:
\* the callback sniff() calls for a captured packet.  An exception that
\* left it would leave sniff().
handle_packet(packet) ==
  LET m == message_from_packet(packet, sn_port)
  IN /\ sn_pc = "sniffing"
     /\ \E n \in 0..Len(sn_handlers) :
          LET dispatched == m.result = "Message"
              h == IF dispatched THEN handle_message(sn_handlers, n)
                   ELSE [called |-> <<>>, raised |-> None]
              raised == IF dispatched THEN h.raised
                        ELSE IF m.result = None THEN None
                        ELSE m.result
              e == except_clauses(raised, sn_dump_bad_packet)
          IN /\ sn_result' = [op |-> "handle_packet", handler |-> None,
                              packet |-> packet, before |-> sn_handlers,
                              outcome |-> IF raised = None THEN "ok"
                                          ELSE raised,
                              decode |-> m, called |-> h.called,
                              dumped |-> e.dumped,
                              propagated |-> e.propagated,
                              prev_failed |-> last_frame_failed]
             /\ IF e.propagated
                THEN sniff_ended("Exception")
                ELSE UNCHANGED <<sn_pc, sn_exit, sn_sigint>>
     /\ UNCHANGED <<sn_port, sn_dump_bad_packet, sn_handlers, sn_offline,
                    loader_vars>>

Init ==
  /\ Init_loader
  /\ Init_sniffer({2181}, {FALSE}, {None})

InitSniffer ==
  /\ Init_loader
  /\ Init_sniffer(Ports, BOOLEAN, SnHandlers \cup {None})

\* The loader with one accumulator, a producer of MaxMsgs messages and the
\* consumer thread, observed for less than a period of the gate.
Next ==
  \/ register_accumulator("full", "full")
  \/ start
  \/ \E input \in RequestInputs : handle_request(input)
  \/ handle_reply
  \/ handle_event
  \/ run_begin
  \/ loop_check
  \/ process_requests
  \/ process_replies
  \/ process_events
  \/ gate_closed
  \/ sleep

Spec == Init /\ [][Next]_vars

\* The loader with any of the accumulators registered and a producer of
\* MaxDispatchMsgs messages.
NextDispatch ==
  \/ \E a \in Accumulators : register_accumulator(a, a)
  \/ start
  \/ \E input \in RequestInputs :
       next_id <= MaxDispatchMsgs /\ handle_request(input)
  \/ next_id <= MaxDispatchMsgs /\ handle_reply
  \/ next_id <= MaxDispatchMsgs /\ handle_event
  \/ run_begin
  \/ loop_check
  \/ process_requests
  \/ process_replies
  \/ process_events
  \/ gate_closed
  \/ sleep

DispatchSpec == Init /\ [][NextDispatch]_vars

\* The loader with its clock: the gate opens.
NextTimer ==
  \/ \E a \in Accumulators : register_accumulator(a, a)
  \/ start
  \/ \E input \in RequestInputs :
       next_id <= MaxTimerMsgs /\ handle_request(input)
  \/ next_id <= MaxTimerMsgs /\ handle_reply
  \/ next_id <= MaxTimerMsgs /\ handle_event
  \/ Tick
  \/ run_begin
  \/ loop_check
  \/ process_requests
  \/ process_replies
  \/ process_events
  \/ gate_closed
  \/ accumulate
  \/ sleep

TimerSpec == Init /\ [][NextTimer]_vars

\* The loader with a caller of stop() and wakeup().
NextStop ==
  \/ start
  \/ stop
  \/ wakeup
  \/ \E input \in RequestInputs :
       next_id <= MaxStopMsgs /\ handle_request(input)
  \/ next_id <= MaxStopMsgs /\ handle_reply
  \/ next_id <= MaxStopMsgs /\ handle_event
  \/ run_begin
  \/ loop_check
  \/ process_requests
  \/ process_replies
  \/ process_events
  \/ gate_closed
  \/ sleep

StopSpec == Init /\ [][NextStop]_vars

\* The consumer thread of a started loader: the steps of run()
Consumer ==
  \/ run_begin
  \/ loop_check
  \/ process_requests
  \/ process_replies
  \/ process_events
  \/ gate_closed
  \/ sleep

\* The loader with a producer that never has to stop sending and a consumer
\* thread that the scheduler runs again and again (Thread.start: the thread
\* runs as long as run() has a statement to execute).
NextFair ==
  \/ register_accumulator("full", "full")
  \/ start
  \/ \E input \in RequestInputs :
       next_id <= MaxFairMsgs /\ handle_request(input)
  \/ next_id <= MaxFairMsgs /\ handle_reply
  \/ next_id <= MaxFairMsgs /\ handle_event
  \/ \E input \in {r \in RequestInputs : ~r.is_auth} :
       handle_request_more(input)
  \/ run_begin
  \/ loop_check
  \/ process_requests
  \/ process_replies
  \/ process_events
  \/ gate_closed
  \/ sleep

FairSpec == Init /\ [][NextFair]_vars /\ WF_vars(Consumer)

\* The loader with two producer threads that call handle_request.
NextConcurrent ==
  \/ \E p \in Producers, input \in RequestInputs : handle_request_auth(p, input)
  \/ \E p \in Producers : handle_request_enqueue(p)

ConcurrentSpec == Init /\ [][NextConcurrent]_vars

\* The Sniffer: callers of add_handler and the capture callback.
NextSniffer ==
  \/ \E handler \in SnHandlers \cup {None} : add_handler(handler)
  \/ \E offline \in BOOLEAN : Sniffer_run(offline)
  \/ \E packet \in Packets : handle_packet(packet)
  \/ \E path \in SniffExits : sniff_exit(path)

SnifferSpec == InitSniffer /\ [][NextSniffer]_vars

\* ----------------------------------------------------------------- claims
QueuedRequests == {requests.items[i] : i \in 1..Len(requests.items)}

QueueOf(kind) ==
  CASE kind = "request" -> requests
    [] kind = "reply" -> replies
    [] kind = "event" -> events

Ids(queue) == {queue.items[i].id : i \in 1..Len(queue.items)}

\* C1: a request with is_auth false carries, from handle_request until it is
\* handed to the handlers, the credential of the latest earlier is_auth
\* request of its client, or "noauth" when there was none; is_auth requests
\* handled after it was queued do not change it.
C1_AuthFixedAtEnqueue ==
  /\ \A r \in QueuedRequests : ~r.is_auth => r.auth = r.seen
  /\ (last_call # <<>> /\ last_call[1].item.kind = "request"
        /\ ~last_call[1].item.is_auth)
       => last_call[1].item.auth = last_call[1].item.seen

\* a queued non-auth request carries a credential that an is_auth request
\* handled after it has since replaced in the table
C1_Witness ==
  \E r \in QueuedRequests :
    /\ ~r.is_auth
    /\ r.auth \in Credentials
    /\ r.client \in DOMAIN auth_by_client
    /\ auth_by_client[r.client] # r.auth

\* C2: in every reachable state each of the three queues holds at most its
\* configured maximum of items.
C2_QueueLengthBounded ==
  /\ Len(requests.items) <= max_reqs
  /\ Len(replies.items) <= max_reps
  /\ Len(events.items) <= max_events

\* the requests queue is full and more requests than it holds have arrived
C2_Witness ==
  /\ Len(requests.items) = max_reqs
  /\ \A i \in 1..Len(requests.items) : requests.items[i].id > 1
  /\ next_id > max_reqs + 1

\* C3 (as claimed): an item that arrives at a queue holding its maximum is
\* the one dropped; the queue keeps exactly the items it held.
C3_NewestDropped ==
  [][/\ (IsFull(requests) /\ next_id' # next_id) => requests' = requests
     /\ (IsFull(replies) /\ next_id' # next_id) => replies' = replies
     /\ (IsFull(events) /\ next_id' # next_id) => events' = events]_vars

\* C4: within a queue, items reach the handlers in the order in which they
\* were queued: the item just popped is older than every item left in the
\* queue of its kind.
C4_FifoDelivery ==
  last_call # <<>> =>
    \A id \in Ids(QueueOf(last_call[1].item.kind)) : id > last_call[1].item.id

\* an item was popped while a later item of its kind is still queued
C4_Witness ==
  /\ last_call # <<>>
  /\ Ids(QueueOf(last_call[1].item.kind)) # {}

\* C5 (as claimed): when a handler raises on a popped item, every other
\* handler registered for the kind is still invoked for that item.
C5_HandlerIsolation ==
  (last_call # <<>> /\ last_call[1].raised # {})
    => last_call[1].invoked = last_call[1].handlers

\* C6: an update_X_stats method is only called with items popped from the X
\* queue, and only on accumulators that expose it; an accumulator with only
\* update_reply_stats never receives a request or an event.
C6_CapabilityDispatch ==
  last_call # <<>> =>
    \A h \in last_call[1].invoked :
      /\ h.method = UpdateMethod(last_call[1].item.kind)
      /\ hasattr(h.acc, h.method)
      /\ h.acc = "replies_only" => last_call[1].item.kind = "reply"

\* a request was dispatched to a handler while replies_only is registered
C6_Witness ==
  /\ last_call # <<>>
  /\ last_call[1].item.kind = "request"
  /\ last_call[1].invoked # {}
  /\ "replies_only" \in DOMAIN accumulators

\* C7 (as claimed): in an iteration where the gate reports the period
\* elapsed, accumulate_stats() is invoked on every registered accumulator
\* that has it, and the gate is reset.
C7_AccumulateEveryPeriod ==
  \A i \in 1..Len(rounds) :
    /\ rounds[i].at - rounds[i].since >= Period
    /\ rounds[i].invoked =
         {a \in Values(accumulators) : hasattr(a, "accumulate_stats")}

\* C8 (as claimed): once stop() has been called on a started loader, the
\* consumer loop never begins another drain iteration.
C8_StopIsFinal ==
  [][stop_called => ~(pc = "loop_check" /\ pc' = "requests")]_vars

\* C9: add_handler raises RegistrationError exactly when the handler is None
\* or already in the list, and then leaves the list as it was; otherwise it
\* appends the handler.  The list never holds None or a handler twice.
C9_AddHandler ==
  /\ \A i \in 1..Len(sn_handlers) :
       /\ sn_handlers[i] # None
       /\ \A j \in 1..Len(sn_handlers) :
            i # j => sn_handlers[i] # sn_handlers[j]
  /\ sn_result.op = "add_handler" =>
       /\ sn_result.outcome = "RegistrationError"
            <=> (sn_result.handler = None
                   \/ sn_result.handler \in Range(sn_result.before))
       /\ sn_result.outcome = "RegistrationError"
            => sn_handlers = sn_result.before
       /\ sn_result.outcome # "RegistrationError"
            => sn_handlers = Append(sn_result.before, sn_result.handler)

\* a handler already in a list of two or more was added again and refused
C9_Witness ==
  /\ sn_result.op = "add_handler"
  /\ sn_result.outcome = "RegistrationError"
  /\ sn_result.handler # None
  /\ Len(sn_handlers) >= 2

BothPortsDiffer(packet) == packet.sport # sn_port /\ packet.dport # sn_port

\* C10 (as claimed): every packet whose source and destination port both
\* differ from the configured port makes message_from_packet raise BadPacket.
C10_WrongPortAlwaysBadPacket ==
  (sn_result.op = "handle_packet" /\ BothPortsDiffer(sn_result.packet))
    => sn_result.decode.result = "BadPacket"

\* C10 (amended): a packet with a non-empty payload whose ports both differ
\* from the configured port raises BadPacket, and the decoder is not called;
\* with a non-empty payload and either port equal, the decoder is called.
C10_WrongPortBadPacket ==
  (sn_result.op = "handle_packet" /\ len(sn_result.packet.data) # 0)
    => IF BothPortsDiffer(sn_result.packet)
       THEN /\ sn_result.decode.result = "BadPacket"
            /\ ~sn_result.decode.decoder
       ELSE /\ sn_result.decode.decoder
            /\ sn_result.decode.result = from_payload(sn_result.packet.data)

\* a packet with a payload, the configured port as source port only, decoded
C10_Witness ==
  /\ sn_result.op = "handle_packet"
  /\ len(sn_result.packet.data) # 0
  /\ sn_result.packet.sport = sn_port
  /\ sn_result.packet.dport # sn_port
  /\ sn_result.decode.decoder

\* C11: a packet whose transport payload has length zero makes
\* message_from_packet return None without raising, and handle_packet calls
\* no handler and prints no error for it.
C11_EmptyPayloadIgnored ==
  (sn_result.op = "handle_packet" /\ len(sn_result.packet.data) = 0)
    => /\ sn_result.decode.result = None
       /\ ~sn_result.decode.decoder
       /\ sn_result.called = <<>>
       /\ sn_result.outcome = "ok"
       /\ ~sn_result.dumped
       /\ ~sn_result.propagated

\* an empty packet on foreign ports was handled while handlers are
\* registered and bad packets are dumped
C11_Witness ==
  /\ sn_result.op = "handle_packet"
  /\ len(sn_result.packet.data) = 0
  /\ BothPortsDiffer(sn_result.packet)
  /\ sn_dump_bad_packet
  /\ sn_handlers # <<>>

\* C12: no exception leaves handle_packet, whether message_from_packet
\* raises BadPacket, struct.error or another exception, or a handler raises:
\* the packet is dropped, the capture goes on, and the handler list is as it
\* was, so that the next packet is decoded and dispatched.
C12_HandlePacketNeverRaises ==
  [][(sn_result'.op = "handle_packet" /\ sn_result' # sn_result)
       => /\ ~sn_result'.propagated
          /\ sn_pc = "sniffing" /\ sn_pc' = "sniffing"
          /\ sn_exit' = sn_exit /\ sn_sigint' = sn_sigint
          /\ sn_handlers' = sn_handlers
          /\ sn_result'.outcome \in {"ok", "BadPacket", "struct.error",
                                     "DeserializationError", "Exception"}]_vars

\* a packet was decoded and dispatched to all handlers after the packet
\* before it had met an exception, and the capture goes on
C12_Witness ==
  /\ sn_result.op = "handle_packet"
  /\ sn_result.prev_failed
  /\ sn_result.outcome = "ok"
  /\ sn_result.decode.result = "Message"
  /\ sn_result.called = sn_handlers
  /\ sn_handlers # <<>>
  /\ sn_pc = "sniffing"

CanAccumulate == {a \in Values(accumulators) : hasattr(a, "accumulate_stats")}

\* C13 (as claimed): an exception raised inside accumulate_stats() of an
\* accumulator is caught like one raised inside an update_*_stats handler:
\* the thread does not end, and the other accumulators that have
\* accumulate_stats are still invoked in that iteration.
C13_AccumulatorExceptionsCaught ==
  \A i \in 1..Len(rounds) :
    (rounds[i].failed # {} /\ rounds[i].failed \subseteq CanAccumulate)
      => /\ pc # "crashed"
         /\ rounds[i].invoked = CanAccumulate

\* C14: once run() has ended, SIGINT has been sent to the own process exactly
\* when "offline" was not among the arguments of run(), whether sniff()
\* returned, raised socket.error or raised another exception, and it was
\* sent once; before the end of run() no signal is sent.
C14_SignalUnlessOffline ==
  /\ sn_pc = "exited" => /\ sn_exit \in SniffExits
                         /\ sn_sigint = (IF sn_offline THEN 0 ELSE 1)
  /\ sn_pc # "exited" => sn_sigint = 0

\* a live capture ended by socket.error and the signal was sent
C14_Witness ==
  /\ sn_pc = "exited"
  /\ ~sn_offline
  /\ sn_exit = "socket.error"
  /\ sn_sigint = 1

\* C15 (as claimed): with producer threads calling handle_request
\* concurrently, a queued non-auth request of a client that was queued after
\* an auth request of that client carries the credential of the latest such
\* auth request queued before it.
C15_AuthAtomicWithEnqueue ==
  \A j \in 1..Len(requests.items) :
    \A k \in (j + 1)..Len(requests.items) :
      LET r == requests.items[j]
          a == requests.items[k]
      IN (/\ ~r.is_auth
          /\ a.is_auth
          /\ a.client = r.client
          /\ \A i \in (j + 1)..(k - 1) :
               ~(requests.items[i].is_auth
                   /\ requests.items[i].client = r.client))
           => r.auth = a.credential

Queued(id) == id \in Ids(requests) \cup Ids(replies) \cup Ids(events)

\* C16 (as claimed): while the consumer thread runs and is scheduled fairly,
\* no item stays in a queue for ever: every item that is in a queue is
\* eventually out of it, for every interleaving of the producer's calls with
\* the consumer's steps.
C16_EveryItemEventuallyPopped ==
  \A id \in 1..MaxFairMsgs :
    (pc # "not_started" /\ Queued(id)) ~> ~Queued(id)

\* C17 (as claimed): every iteration of the consumer loop terminates: from
\* the drain of the requests queue the loop reaches its sleep, also while the
\* producer keeps calling handle_request.
C17_IterationTerminates ==
  (pc = "requests") ~> (pc = "sleep")

\* C18 (as claimed): in an iteration where the gate is open,
\* accumulate_stats() is invoked only on the accumulators that have it: an
\* accumulator registered without it is skipped, that is, no call fails at
\* it, the others are all invoked, and the thread goes on.
C18_AccumulateSkipsIncapable ==
  \A i \in 1..Len(rounds) :
    /\ rounds[i].invoked \subseteq CanAccumulate
    /\ rounds[i].failed \cap CanAccumulate = {}
         => /\ rounds[i].failed = {}
            /\ rounds[i].invoked = CanAccumulate
            /\ (i = Len(rounds) => pc # "crashed")

\* C19 (as claimed): the AuthTable changes only in a call of handle_request
\* for a request with is_auth true; handle_request for a non-auth request,
\* handle_reply, handle_event, the consumer's steps, wakeup() and stop()
\* leave it as it was, the set of clients with an entry included.
C19_AuthTableOnlyByAuthRequest ==
  [][auth_by_client' # auth_by_client
       => /\ next_id' = next_id + 1
          /\ Len(requests'.items) > 0
          /\ requests'.items[1].id = next_id
          /\ requests'.items[1].is_auth]_vars

IsPrefix(s, t) == Len(s) <= Len(t) /\ s = SubSeq(t, 1, Len(s))

====
